---- MODULE Spec2Model ----
(***************************************************************************)
(* Model of the field extraction of birth_cert_intl.py: the civil-status  *)
(* checkbox resolver, the seal footer, the exonym normalizer and the      *)
(* table-field extraction over a Textract block list.                     *)
(* Strings the code inspects character by character are sequences of     *)
(* one-character strings; results are turned into strings with ToStr.    *)
(* A bounding box centre Top + Height/2 is kept doubled (2*Top + Height)  *)
(* so that distances are exact integers with the same order.              *)
(***************************************************************************)
EXTENDS Integers, Sequences, FiniteSets, TLC

VARIABLES blocks, gender, stato, seal, text, exo, exo2, cellIn, fields, data, pc

vars == <<blocks, gender, stato, seal, text, exo, exo2, cellIn, fields, data, pc>>

(* ---------------- character helpers (Python str semantics) ------------ *)
LowerAZ == <<"a","b","c","d","e","f","g","h","i","j","k","l","m","n","o","p","q","r","s","t","u","v","w","x","y","z","ë","ç">>
UpperAZ == <<"A","B","C","D","E","F","G","H","I","J","K","L","M","N","O","P","Q","R","S","T","U","V","W","X","Y","Z","Ë","Ç">>

UpToLow == [c \in {UpperAZ[i] : i \in 1..Len(UpperAZ)} |->
              LowerAZ[CHOOSE i \in 1..Len(UpperAZ) : UpperAZ[i] = c]]

LowToUp == [c \in {LowerAZ[i] : i \in 1..Len(LowerAZ)} |->
              UpperAZ[CHOOSE i \in 1..Len(LowerAZ) : LowerAZ[i] = c]]

ToLowerC(c) == IF c \in DOMAIN UpToLow THEN UpToLow[c] ELSE c

ToUpperC(c) == IF c \in DOMAIN LowToUp THEN LowToUp[c] ELSE c

lower(s) == [i \in 1..Len(s) |-> ToLowerC(s[i])]

upper(s) == [i \in 1..Len(s) |-> ToUpperC(s[i])]

IsSpace(c) == c \in {" ", "\t", "\n"}

NonSpace(s) == {i \in 1..Len(s) : ~IsSpace(s[i])}

(* str.strip(): from the first to the last non-whitespace character *)
strip(s) == IF NonSpace(s) = {} THEN <<>>
            ELSE SubSeq(s, CHOOSE i \in NonSpace(s) : \A j \in NonSpace(s) : i <= j,
                           CHOOSE i \in NonSpace(s) : \A j \in NonSpace(s) : i >= j)

(* `sub in s` for sequences of characters *)
Contains(s, sub) == \E i \in 0..(Len(s) - Len(sub)) :
                        SubSeq(s, i + 1, i + Len(sub)) = sub

StartsWith(s, p) == Len(s) >= Len(p) /\ SubSeq(s, 1, Len(p)) = p

RECURSIVE ToStr(_)
ToStr(s) == IF s = <<>> THEN ""
            ELSE IF Len(s) = 1 THEN s[1]
            ELSE ToStr(SubSeq(s, 1, Len(s) \div 2)) \o ToStr(SubSeq(s, Len(s) \div 2 + 1, Len(s)))

AbsDiff(a, b) == IF a >= b THEN a - b ELSE b - a

(* ---------------- blocks -------------------------------------------- *)
Word(t, top, h) == [type |-> "WORD", text |-> t, top |-> top, height |-> h,
                    rel |-> <<>>, row |-> 0, col |-> 0]

(* doubled vertical centre: 2 * (Top + Height/2) *)
Centre(b) == 2 * b.top + b.height

(* ---------------- get_stato_from_vertical_boxes ----------------------- *)
Sentinel == "[X] Stato non riconosciuto"

fragments_mutant == <<<<"m","a","r","t","u">>, <<"b","e","q","a","r">>,
                      <<"s","h","k","u","r","o","r">>, <<"v","e","d","o","v">>>>

fragments == <<<<"b","e","q","a","r">>, <<"m","a","r","t","u">>,
               <<"s","h","k","u","r","o","r">>, <<"v","e","d","o","v">>>>

male   == <<"Celibe", "Coniugato", "Divorziato", "Vedovo">>
female == <<"Nubile", "Coniugata", "Divorziata", "Vedova">>

MarkTexts == {<<"x">>, <<"x", ".">>, <<"x", ",">>}

(* step 1: for w in blocks (WORDs), for frag, idx in fragments: the     *)
(* first WORD containing a fragment sets centres[idx]. The dict's         *)
(* insertion order is that of (first word position, fragment index).      *)
FragWords(bl, f) == {i \in 1..Len(bl) : bl[i].type = "WORD" /\
                                        Contains(lower(strip(bl[i].text)), fragments[f])}

FirstFragWord(bl, f) == CHOOSE i \in FragWords(bl, f) : \A j \in FragWords(bl, f) : i <= j

FoundFrags(bl) == {f \in 1..Len(fragments) : FragWords(bl, f) /= {}}

InsertedBefore(bl, g, f) == \/ FirstFragWord(bl, g) < FirstFragWord(bl, f)
                            \/ FirstFragWord(bl, g) = FirstFragWord(bl, f) /\ g < f

(* centres as the sequence of its items <<idx, y>> in insertion order *)
Centres(bl) ==
    LET F == FoundFrags(bl) IN
    [k \in 1..Cardinality(F) |->
        LET f == CHOOSE f \in F : Cardinality({g \in F : InsertedBefore(bl, g, f)}) = k - 1
        IN <<f - 1, Centre(bl[FirstFragWord(bl, f)])>>]

(* sorted(centres.items(), key=lambda p: p[1]) *)
RECURSIVE Insert(_, _)
Insert(p, s) == IF s = <<>> THEN <<p>>
                ELSE IF p[2] < Head(s)[2] THEN <<p>> \o s
                ELSE <<Head(s)>> \o Insert(p, Tail(s))

(* inserting each element after those with an equal key, in list order, *)
(* is Python's stable sort                                               *)
RECURSIVE StableSort(_, _)
StableSort(s, acc) == IF s = <<>> THEN acc
                      ELSE StableSort(Tail(s), Insert(Head(s), acc))

IsMark(b) == b.type = "WORD" /\ lower(strip(b.text)) \in MarkTexts

RECURSIVE MinFirst_signed(_, _, _)
MinFirst_signed(s, xy, best) ==
    IF s = <<>> THEN best
    ELSE MinFirst_signed(Tail(s), xy,
                  IF Head(s)[2] - xy < best[2] - xy THEN Head(s) ELSE best)

RECURSIVE MinFirst_last(_, _, _)
MinFirst_last(s, xy, best) ==
    IF s = <<>> THEN best
    ELSE MinFirst_last(Tail(s), xy,
                  IF AbsDiff(Head(s)[2], xy) <= AbsDiff(best[2], xy) THEN Head(s) ELSE best)

(* min(ordered, key=|y - x|): first element with the least key *)
RECURSIVE MinFirst(_, _, _)
MinFirst(s, xy, best) ==
    IF s = <<>> THEN best
    ELSE MinFirst(Tail(s), xy,
                  IF AbsDiff(Head(s)[2], xy) < AbsDiff(best[2], xy) THEN Head(s) ELSE best)

MinFound_mutant == 4 - 1

(* if len(centres) < 4 *)
MinFound == 4

get_stato_from_vertical_boxes(bl, g0) ==
    LET c == Centres(bl) IN
    IF Len(c) < MinFound THEN Sentinel
    ELSE LET ordered == StableSort(c, <<>>) IN
         IF ~\E i \in 1..Len(bl) : IsMark(bl[i]) THEN Sentinel
         ELSE LET xb == bl[CHOOSE i \in 1..Len(bl) : IsMark(bl[i]) /\
                                   \A j \in 1..(i - 1) : ~IsMark(bl[j])]
                  best == MinFirst(Tail(ordered), Centre(xb), Head(ordered))
                  g == lower(g0)
              IN IF StartsWith(g, <<"f">>) THEN female[best[1] + 1]
                 ELSE IF StartsWith(g, <<"m">>) THEN male[best[1] + 1]
                 ELSE male[best[1] + 1] \o " / " \o female[best[1] + 1]
(* ---------------- resolver specification ------------------------------ *)
MaxTop == 3
Tops == 0..MaxTop
(* printed labels sit at the top and the bottom of the range, so a mark *)
(* can lie strictly between two labels and nearer to one of them        *)
LabelTops == {0, MaxTop}
Absent == MaxTop + 1

LabelTexts == <<<<"B","e","q","a","r">>,
                <<"i"," ","m","a","r","t","u","a","r">>,
                <<"S","H","K","U","R","O","R","Ë","Z","U","A","R">>,
                <<"v","e","d","o","v","e">>>>

StatoMarks == {<<"x">>, <<" ", "X", ".">>}

StatoGenders == {<<"F","e","m","m","i","n","i","l","e">>,
                 <<"M","a","s","c","h","i","o">>, <<>>}

LabelBlocks(lt) == SelectSeq([k \in 1..4 |-> Word(LabelTexts[k], lt[k - 1], 2)],
                             LAMBDA b : b.top /= Absent)

RECURSIVE Reverse(_)
Reverse(s) == IF s = <<>> THEN <<>> ELSE Append(Reverse(Tail(s)), Head(s))

StatoDocs ==
    {IF fwd THEN LabelBlocks(lt) \o mk ELSE mk \o Reverse(LabelBlocks(lt)) :
        lt \in [0..3 -> LabelTops \cup {Absent}],
        mk \in {<<>>} \cup {<<Word(m, t, h)>> : m \in StatoMarks, t \in Tops, h \in {1, 2}},
        fwd \in BOOLEAN}

StatoInit ==
    /\ blocks \in StatoDocs
    /\ gender \in StatoGenders
    /\ stato = ""
    /\ seal = ""
    /\ text = <<>> /\ exo = <<>> /\ exo2 = <<>>
    /\ cellIn = <<>> /\ fields = <<>> /\ data = <<>>
    /\ pc = "init"

(* extract_table_fields: "Stato Civile": get_stato_from_vertical_boxes(...) *)
Resolve ==
    /\ pc = "init"
    /\ stato' = get_stato_from_vertical_boxes(blocks, gender)
    /\ pc' = "done"
    /\ UNCHANGED <<blocks, gender, seal, text, exo, exo2, cellIn, fields, data>>

StatoNext == Resolve

StatoSpec == StatoInit /\ [][StatoNext]_vars
(* ---------------- extract_seal_footer --------------------------------- *)
Line(t) == [type |-> "LINE", text |-> t, top |-> 0, height |-> 0,
            rel |-> <<>>, row |-> 0, col |-> 0]

LinesOf(bl) == [k \in 1..Len(SelectSeq(bl, LAMBDA b : b.type = "LINE")) |->
                   SelectSeq(bl, LAMBDA b : b.type = "LINE")[k].text]

SealPhrase == <<"v","u","l","o","s","u","r"," ","e","l","e","k","t","r","o","n","i","k","i","s","h","t">>

Digits == {"0","1","2","3","4","5","6","7","8","9"}
HexChars == Digits \cup {"a","b","c","d","e","f","A","B","C","D","E","F"}

(* re.search(r"\d{4}/\d{2}/\d{2}", txt) *)
DateAt(t, i) == /\ \A k \in {0,1,2,3,5,6,8,9} : t[i + k] \in Digits
                /\ t[i + 4] = "/" /\ t[i + 7] = "/"
HasDate(t) == \E i \in 1..(Len(t) - 9) : DateAt(t, i)

(* re.fullmatch(r"[A-Fa-f0-9]{30,40}", txt) *)
IsHash(t) == Len(t) >= 30 /\ Len(t) <= 40 /\ \A i \in 1..Len(t) : t[i] \in HexChars

RECURSIVE SkipSpaces(_)
SkipSpaces(t) == IF t /= <<>> /\ IsSpace(Head(t)) THEN SkipSpaces(Tail(t)) ELSE t

(* re.sub(r"^(Date|Datë)\s*:?\s*", "", txt, flags=re.I) *)
StripDateLabel(t) ==
    IF Len(t) >= 4 /\ lower(SubSeq(t, 1, 4)) \in {<<"d","a","t","e">>, <<"d","a","t","ë">>}
    THEN LET r1 == SkipSpaces(SubSeq(t, 5, Len(t)))
             r2 == IF r1 /= <<>> /\ Head(r1) = ":" THEN Tail(r1) ELSE r1
         IN SkipSpaces(r2)
    ELSE t

InData == <<"I","n"," ","d","a","t","a"," ">>

(* for raw in lines[start:]: ... ; result is <<date_line, hash_line>> *)
RECURSIVE SealScan(_, _, _)
SealScan(ls, d, h) ==
    IF ls = <<>> \/ (d /= <<>> /\ h /= <<>>) THEN <<d, h>>
    ELSE LET txt == strip(Head(ls)) IN
         IF d = <<>> /\ HasDate(txt)
         THEN SealScan(Tail(ls), InData \o strip(StripDateLabel(txt)), h)
         ELSE IF h = <<>> /\ IsHash(txt)
         THEN SealScan(Tail(ls), d, txt)
         ELSE SealScan(Tail(ls), d, h)

SealHeader == "Timbro elettronico della Direzione\nGenerale dello Stato Civile\n"

extract_seal_footer(bl) ==
    LET lines == LinesOf(bl)
        matches == {i \in 1..Len(lines) : Contains(lower(lines[i]), SealPhrase)}
    IN IF Cardinality(matches) < 2 THEN ""
       ELSE LET start == CHOOSE i \in matches :
                           Cardinality({j \in matches : j < i}) = 1
                dh == SealScan(SubSeq(lines, start, Len(lines)), <<>>, <<>>)
            IN IF dh[1] = <<>> \/ dh[2] = <<>> THEN ""
               ELSE SealHeader \o ToStr(dh[1]) \o "\n" \o ToStr(dh[2])

(* ---------------- seal specification ---------------------------------- *)
MaxLines == 4

DateChars == <<"2","0","2","3","/","0","5","/","1","0">>
Hex(n) == [i \in 1..n |-> IF i % 3 = 0 THEN "F" ELSE IF i % 3 = 1 THEN "0" ELSE "c"]

SealLineTexts ==
    { <<"V","u","l","o","s","u","r"," ","e","l","e","k","t","r","o","n","i","k","i","s","h","t">>,
      <<"V","U","L","O","S","U","R"," ","E","L","E","K","T","R","O","N","I","K","I","S","H","T"," ","n","g","a">>,
      <<"V","u","l","o","s","u","r"," ","e","l","e","k","t","r","o","n","i","k","i","s","h","t"," ">> \o DateChars,
      <<"D","a","t","ë",":"," ">> \o DateChars,
      DateChars,
      Hex(30), Hex(41),
      <<"F","a","q","e"," ","1">> }

SealDocs == UNION {[1..n -> {Line(t) : t \in SealLineTexts}] : n \in 0..MaxLines}

SealInit ==
    /\ blocks \in SealDocs
    /\ gender = <<>>
    /\ stato = ""
    /\ seal = ""
    /\ text = <<>> /\ exo = <<>> /\ exo2 = <<>>
    /\ cellIn = <<>> /\ fields = <<>> /\ data = <<>>
    /\ pc = "init"

(* extract_table_fields: "ElectronicSeal": extract_seal_footer(blocks) *)
ExtractSeal ==
    /\ pc = "init"
    /\ seal' = extract_seal_footer(blocks)
    /\ pc' = "done"
    /\ UNCHANGED <<blocks, gender, stato, text, exo, exo2, cellIn, fields, data>>

SealNext == ExtractSeal

SealSpec == SealInit /\ [][SealNext]_vars

(* ---------------- map_exonyms ----------------------------------------- *)
IsWordChar(c) == c \in {LowerAZ[i] : i \in 1..Len(LowerAZ)} \cup {UpperAZ[i] : i \in 1..Len(UpperAZ)}
                       \cup Digits \cup {"_"}

(* \b between positions i-1 and i of s (outside s is a non-word position) *)
Boundary(s, i) == (i > 1 /\ IsWordChar(s[i - 1])) # (i <= Len(s) /\ IsWordChar(s[i]))

(* pattern \b<p>\b with p a sequence of lower-case character classes,    *)
(* matched case-insensitively at position i                               *)
MatchAt(s, i, p) == /\ i + Len(p) - 1 <= Len(s)
                    /\ Boundary(s, i)
                    /\ \A k \in 1..Len(p) : ToLowerC(s[i + k - 1]) \in p[k]
                    /\ Boundary(s, i + Len(p))

(* re.sub(pattern, repl, s, flags=re.IGNORECASE) from position i *)
RECURSIVE ReSub(_, _, _, _)
ReSub(s, i, p, r) ==
    IF i > Len(s) THEN <<>>
    ELSE IF MatchAt(s, i, p) THEN r \o ReSub(s, i + Len(p), p, r)
    ELSE <<s[i]>> \o ReSub(s, i + 1, p, r)

Lit(w) == [k \in 1..Len(w) |-> {w[k]}]
EorE == {"ë", "e"}

EXONYM_RULES_mutant ==
    << << Lit(<<"t","i","r","a","n">>) \o <<EorE>>, <<"T","i","r","a","n","a">> >>,
       << Lit(<<"v","l","o","r">>) \o <<EorE>>, <<"V","a","l","o","n","a">> >>,
       << Lit(<<"d","u","r","r">>) \o <<EorE>> \o Lit(<<"s">>),
          <<"D","u","r","a","z","z","o"," ","(","D","u","r","r","ë","s",")">> >>,
       << Lit(<<"s","h","k","o","d">>) \o <<EorE>> \o Lit(<<"r">>), <<"S","c","u","t","a","r","i">> >> >>

EXONYM_RULES ==
    << << Lit(<<"t","i","r","a","n">>) \o <<EorE>>, <<"T","i","r","a","n","a">> >>,
       << Lit(<<"v","l","o","r">>) \o <<EorE>>, <<"V","a","l","o","n","a">> >>,
       << Lit(<<"d","u","r","r">>) \o <<EorE>> \o Lit(<<"s">>), <<"D","u","r","a","z","z","o">> >>,
       << Lit(<<"s","h","k","o","d">>) \o <<EorE>> \o Lit(<<"r">>), <<"S","c","u","t","a","r","i">> >> >>

RECURSIVE ApplyRules(_, _)
ApplyRules(s, k) == IF k > Len(EXONYM_RULES) THEN s
                    ELSE ApplyRules(ReSub(s, 1, EXONYM_RULES[k][1], EXONYM_RULES[k][2]), k + 1)

map_exonyms(t) == IF t = <<>> THEN t ELSE ApplyRules(t, 1)

(* ---------------- exonym specification -------------------------------- *)
MaxPieces == 3

ExoPieces == { <<"T","i","r","a","n","ë">>, <<"T","I","R","A","N","E">>, <<"T","i","r","a","n","a">>,
               <<"V","l","o","r","ë">>, <<"D","u","r","r","ë","s">>, <<"S","h","k","o","d","ë","r">>,
               <<"x">>, <<"-">>, <<" ">> }

RECURSIVE Concat(_)
Concat(ps) == IF ps = <<>> THEN <<>> ELSE Head(ps) \o Concat(Tail(ps))

ExoTexts == {Concat(ps) : ps \in UNION {[1..n -> ExoPieces] : n \in 0..MaxPieces}}

ExoInit ==
    /\ blocks = <<>>
    /\ gender = <<>>
    /\ stato = ""
    /\ seal = ""
    /\ text \in ExoTexts /\ exo = <<>> /\ exo2 = <<>>
    /\ cellIn = <<>> /\ fields = <<>> /\ data = <<>>
    /\ pc = "init"

(* extract_table_fields: result[k] = map_exonyms(result.get(k, "")) *)
NormalizeOnce ==
    /\ pc = "init"
    /\ exo' = map_exonyms(text)
    /\ pc' = "once"
    /\ UNCHANGED <<blocks, gender, stato, seal, text, exo2, cellIn, fields, data>>

(* the normalizer applied again to its own output *)
NormalizeTwice ==
    /\ pc = "once"
    /\ exo2' = map_exonyms(exo)
    /\ pc' = "done"
    /\ UNCHANGED <<blocks, gender, stato, seal, text, exo, cellIn, fields, data>>

ExoNext == NormalizeOnce \/ NormalizeTwice

ExoSpec == ExoInit /\ [][ExoNext]_vars

(* ---------------- extract_table_fields -------------------------------- *)
(* a Textract block: Relationships is a sequence of [t |-> Type, ids |-> Ids] *)
Cell(r, c, ids) == [type |-> "CELL", text |-> <<>>, top |-> 0, height |-> 0,
                    rel |-> <<[t |-> "CHILD", ids |-> ids]>>, row |-> r, col |-> c]

Table(ids) == [type |-> "TABLE", text |-> <<>>, top |-> 0, height |-> 0,
               rel |-> <<[t |-> "CHILD", ids |-> ids]>>, row |-> 0, col |-> 0]

RECURSIVE JoinSpace(_)
JoinSpace(ws) == IF ws = <<>> THEN <<>>
                 ELSE IF Len(ws) = 1 THEN Head(ws)
                 ELSE Head(ws) \o <<" ">> \o JoinSpace(Tail(ws))

RECURSIVE Flatten(_)
Flatten(ss) == IF ss = <<>> THEN <<>>
               ELSE IF Len(ss) = 1 THEN ss[1]
               ELSE Flatten(SubSeq(ss, 1, Len(ss) \div 2)) \o Flatten(SubSeq(ss, Len(ss) \div 2 + 1, Len(ss)))

(* " ".join(w["Text"] for cr in cell.Relationships for wid in cr.Ids     *)
(*          for w in (bmap[wid],) if w["BlockType"] == "WORD").strip()   *)
CellText(bl, cell) ==
    LET wids == Flatten([k \in 1..Len(cell.rel) |-> cell.rel[k].ids])
        ws == SelectSeq([k \in 1..Len(wids) |-> bl[wids[k]]], LAMBDA w : w.type = "WORD")
    IN strip(JoinSpace([k \in 1..Len(ws) |-> ws[k].text]))

(* rows.get(r, {}).get(c, ""): the last CELL child of the table at (r, c) *)
GridGet(bl, tbl, r, c) ==
    LET cids == Flatten([k \in 1..Len(tbl.rel) |->
                           IF tbl.rel[k].t = "CHILD" THEN tbl.rel[k].ids ELSE <<>>])
        hits == {k \in 1..Len(cids) : bl[cids[k]].type = "CELL" /\
                                      bl[cids[k]].row = r /\ bl[cids[k]].col = c}
    IN IF hits = {} THEN <<>>
       ELSE CellText(bl, bl[cids[CHOOSE k \in hits : \A j \in hits : j <= k]])

AllChars == {LowerAZ[i] : i \in 1..Len(LowerAZ)} \cup {UpperAZ[i] : i \in 1..Len(UpperAZ)}
            \cup Digits \cup {" ", ".", ",", ":", "/", "-", "_", "(", ")", "\t"}

(* plain (case-sensitive, no \b) substitution of a pattern of character  *)
(* classes, left to right, non-overlapping: re.sub and str.replace       *)
PlainAt(s, i, p) == /\ i + Len(p) - 1 <= Len(s)
                    /\ \A k \in 1..Len(p) : s[i + k - 1] \in p[k]

RECURSIVE PlainSub(_, _, _, _)
PlainSub(s, i, p, r) ==
    IF i > Len(s) THEN <<>>
    ELSE IF PlainAt(s, i, p) THEN r \o PlainSub(s, i + Len(p), p, r)
    ELSE <<s[i]>> \o PlainSub(s, i + 1, p, r)

(* re.sub(r"Nd.", "Ed.", s): '.' is any character but a newline *)
ResidenceRules ==
    << << <<{"N"}, {"d"}, AllChars \ {"\n"}>>, <<"E","d",".">> >>,
       << Lit(<<"H",".">>), <<"I","n","t",".">> >>,
       << Lit(<<"A","p",".">>), <<"A","p","p",".">> >>,
       << Lit(<<"N","j","ë","s","i","a">>), <<"S","e","z","i","o","n","e">> >>,
       << Lit(<<"A","d","m","i","n","i","s","t","r","a","t","i","v","e">>),
          <<"A","m","m","i","n","i","s","t","r","a","t","i","v","a">> >>,
       << Lit(<<"N","J","Ë","S","I","A">>), <<"S","e","z","i","o","n","e">> >>,
       << Lit(<<"A","D","M","I","N","I","S","T","R","A","T","I","V","E">>),
          <<"A","m","m","i","n","i","s","t","r","a","t","i","v","a">> >>,
       << Lit(<<"N","J","E","S","I","A">>), <<"S","e","z","i","o","n","e">> >>,
       << Lit(<<"N","j","e","s","i","a">>), <<"S","e","z","i","o","n","e">> >> >>

RECURSIVE CleanResidence(_, _)
CleanResidence(s, k) == IF k > Len(ResidenceRules) THEN s
                        ELSE CleanResidence(PlainSub(s, 1, ResidenceRules[k][1], ResidenceRules[k][2]), k + 1)

AlbanianVariants_mutant == {<<"A","L","B">>, <<"A","L","B","A","N","I","A">>, <<"S","H","Q","I","P","T","A","R">>}

AlbanianVariants == {<<"A","L","B">>, <<"A","L","B","A","N","I","A">>,
                     <<"S","H","Q","I","P","T","A","R","E">>, <<"S","H","Q","I","P","T","A","R">>}

SessoVal_mutant(raw) == IF raw = <<"M">> THEN <<"F","e","m","m","i","n","i","l","e">>
                        ELSE IF raw = <<"F">> THEN <<"M","a","s","c","h","i","o">>
                        ELSE raw

SessoVal(raw) == IF raw = <<"M">> THEN <<"M","a","s","c","h","i","o">>
                 ELSE IF raw = <<"F">> THEN <<"F","e","m","m","i","n","i","l","e">>
                 ELSE raw

EmptyRecord == [k \in {} |-> ""]

SealEntry(bl) == "ElectronicSeal" :> extract_seal_footer(bl)

TableFound(bl) == \E i \in 1..Len(bl) : bl[i].type = "TABLE"

(* next((b for b in blocks if b["BlockType"] == "TABLE"), None) *)
FirstTable(bl) == bl[CHOOSE i \in 1..Len(bl) : bl[i].type = "TABLE" /\
                                          \A j \in 1..(i - 1) : bl[j].type /= "TABLE"]

(* the body of extract_table_fields once a table has been found *)
TableFields(bl, tbl) ==
    LET G(r) == GridGet(bl, tbl, r, 2)
        res_raw == G(9)
        res == IF res_raw /= <<>> THEN CleanResidence(res_raw, 1) ELSE res_raw
        sesso_val == SessoVal(upper(strip(G(10))))
        citt == G(12)
    IN  ("Nome" :> ToStr(G(2))) @@
        ("Cognome" :> ToStr(G(3))) @@
        ("Numero personale" :> ToStr(G(4))) @@
        ("Nome del padre" :> ToStr(G(5))) @@
        ("Nome della madre" :> ToStr(G(6))) @@
        ("Data di nascita" :> ToStr(G(7))) @@
        ("Luogo di nascita" :> ToStr(map_exonyms(G(8)))) @@
        ("Residenza" :> ToStr(map_exonyms(res))) @@
        ("Sesso" :> ToStr(sesso_val)) @@
        ("Stato Civile" :> get_stato_from_vertical_boxes(bl, sesso_val)) @@
        ("Cittadinanza" :> IF upper(strip(citt)) \in AlbanianVariants THEN "Albanese"
                           ELSE ToStr(citt)) @@
        ("Cognome prima del matrimonio" :> ToStr(G(13))) @@
        ("Data del rilascio" :> ToStr(G(14))) @@
        SealEntry(bl)

extract_table_fields_no_guard(bl) ==
    TableFields(bl, IF TableFound(bl) THEN FirstTable(bl) ELSE Table(<<>>))

extract_table_fields(bl) ==
    IF ~TableFound(bl) THEN EmptyRecord ELSE TableFields(bl, FirstTable(bl))

(* ---------------- extract_comune_sezione ------------------------------ *)
IsCased(c) == c \in {LowerAZ[i] : i \in 1..Len(LowerAZ)} \cup {UpperAZ[i] : i \in 1..Len(UpperAZ)}

(* str.title(): upper-case a letter after an uncased character, lower-case *)
(* a letter after a cased one                                            *)
RECURSIVE TitleFrom(_, _)
TitleFrom(s, prevCased) ==
    IF s = <<>> THEN <<>>
    ELSE <<IF prevCased THEN ToLowerC(Head(s)) ELSE ToUpperC(Head(s))>>
         \o TitleFrom(Tail(s), IsCased(Head(s)))

title(s) == TitleFrom(s, FALSE)

FirstIndex(s, sub) == CHOOSE i \in 0..(Len(s) - Len(sub)) :
                          /\ SubSeq(s, i + 1, i + Len(sub)) = sub
                          /\ \A j \in 0..(i - 1) : SubSeq(s, j + 1, j + Len(sub)) /= sub

BashkiaW == <<"B","a","s","h","k","i","a">>
AdministrativeW == <<"A","d","m","i","n","i","s","t","r","a","t","i","v","e">>

(* [A-ZÇËA-Za-zë\-] *)
ComuneClass == {UpperAZ[i] : i \in 1..26} \cup {LowerAZ[i] : i \in 1..26} \cup {"Ç", "Ë", "ë", "-"}

RECURSIVE SpaceRun(_)
SpaceRun(s) == IF s /= <<>> /\ IsSpace(Head(s)) THEN <<Head(s)>> \o SpaceRun(Tail(s)) ELSE <<>>

RECURSIVE ComuneRun(_)
ComuneRun(s) == IF s /= <<>> /\ Head(s) \in ComuneClass THEN <<Head(s)>> \o ComuneRun(Tail(s)) ELSE <<>>

(* re.search(r"Bashkia\s+([A-ZÇËA-Za-zë\-]+)", l): the group at the       *)
(* leftmost position where the whole pattern matches, or <<>> if none     *)
BashkiaMatchAt(l, i) ==
    /\ SubSeq(l, i + 1, i + 7) = BashkiaW
    /\ LET rest == SubSeq(l, i + 8, Len(l))
           sp == Len(SpaceRun(rest))
       IN sp >= 1 /\ ComuneRun(SubSeq(rest, sp + 1, Len(rest))) /= <<>>

BashkiaGroup(l) ==
    LET ms == {i \in 0..(Len(l) - 7) : BashkiaMatchAt(l, i)} IN
    IF ms = {} THEN <<>>
    ELSE LET i == CHOOSE i \in ms : \A j \in ms : i <= j
             rest == SubSeq(l, i + 8, Len(l))
         IN ComuneRun(SubSeq(rest, Len(SpaceRun(rest)) + 1, Len(rest)))

(* the loop body for line i: <<comune, sezione>> after it *)
HeaderStep(lines, i, cs) ==
    LET l == lines[i]
        c == IF Contains(l, BashkiaW) /\ BashkiaGroup(l) /= <<>>
             THEN title(BashkiaGroup(l)) ELSE cs[1]
        isSez == \/ Contains(l, <<"N","j","ë","s","i","a"," ">> \o AdministrativeW)
                 \/ Contains(l, <<"N","j","e","s","i","a"," ">> \o AdministrativeW)
        suf0 == strip(SubSeq(l, FirstIndex(l, AdministrativeW) + Len(AdministrativeW) + 1, Len(l)))
        suf == IF lower(suf0) \in {<<"n","r",".">>, <<"n","r">>}
               THEN suf0 \o <<" ">> \o (IF i + 1 <= Len(lines) THEN lines[i + 1] ELSE <<>>)
               ELSE suf0
    IN <<c, IF isSez THEN title(suf) ELSE cs[2]>>

RECURSIVE HeaderLoop(_, _, _)
HeaderLoop(lines, i, cs) == IF i > Len(lines) THEN cs
                            ELSE HeaderLoop(lines, i + 1, HeaderStep(lines, i, cs))

extract_comune_sezione(bl) ==
    LET cs == HeaderLoop(LinesOf(bl), 1, <<<<>>, <<>>>>)
    IN <<ToStr(map_exonyms(cs[1])), ToStr(map_exonyms(cs[2]))>>

(* ---------------- main flow (single file) ----------------------------- *)
(* A Textract block list: the CELLs of the table (one per row of cellIn, *)
(* column 2), their WORDs, further blocks, and the TABLE when present.    *)
SortedRows(ci) == LET D == DOMAIN ci IN
                  [k \in 1..Cardinality(D) |->
                      CHOOSE r \in D : Cardinality({q \in D : q < r}) = k - 1]

RECURSIVE SumLens(_, _, _)
SumLens(ci, rs, k) == IF k = 0 THEN 0 ELSE Len(ci[rs[k]]) + SumLens(ci, rs, k - 1)

MakeDoc(hasTbl, ci, extra) ==
    LET rs == SortedRows(ci)
        n == Len(rs)
        cells == [k \in 1..n |->
                    Cell(rs[k], 2, [j \in 1..Len(ci[rs[k]]) |-> n + SumLens(ci, rs, k - 1) + j])]
        words == Flatten([k \in 1..n |-> [j \in 1..Len(ci[rs[k]]) |-> Word(ci[rs[k]][j], 0, 0)]])
    IN cells \o words \o extra \o (IF hasTbl THEN <<Table([k \in 1..n |-> k])>> ELSE <<>>)

FixedRows == (2 :> <<<<"A","n","a">>>>) @@ (3 :> <<<<"K","o","c","i">>>>) @@
             (4 :> <<<<"J","1">>>>) @@ (5 :> <<<<"P","a","l">>>>) @@ (6 :> <<<<"E","v","a">>>>) @@
             (7 :> <<<<"2","0","0","0","/","0","1","/","0","2">>>>) @@
             (8 :> <<<<"T","i","r","a","n","ë">>>>)
TailRows == (11 :> <<<<"-">>>>) @@ (13 :> <<<<"K","o","c","i">>>>) @@
            (14 :> <<<<"2","0","2","3","/","0","5","/","1","0">>>>)

ResidenceCells == { <<<<"R","r",".">>, <<"N","d",".","4">>, <<"H",".","2">>, <<"A","p",".","7">>,
                      <<"T","i","r","a","n","ë">>>>,
                    <<<<"N","J","Ë","S","I","A">>,
                      <<"A","D","M","I","N","I","S","T","R","A","T","I","V","E">>, <<"N","r",".","2">>>>,
                    <<<<"N","d","a">>, <<"V","l","o","r","ë">>>> }

SexCells == {<<<<"F">>>>, <<<<"m">>>>, <<<<"x">>>>}

CittCells == {<<<<"A","l","b","a","n","i","a">>>>, <<<<"s","h","q","i","p","t","a","r","e">>>>, <<<<"I","T","A">>>>, <<<<"A","L","B">>>>}

StatusWords(xTop) ==
    << Word(LabelTexts[1], 1, 2), Word(LabelTexts[2], 2, 2),
       Word(LabelTexts[3], 3, 2), Word(LabelTexts[4], 4, 2), Word(<<"x">>, xTop, 2) >>

HeaderLines == << Line(<<"B","a","s","h","k","i","a"," ","T","i","r","a","n","ë">>),
                  Line(<<"N","j","ë","s","i","a"," ","A","d","m","i","n","i","s","t","r","a","t","i","v","e"," ","N","r",".">>),
                  Line(<<"2">>) >>

SealLines == << Line(SealPhrase), Line(SealPhrase),
                Line(<<"D","a","t","ë",":"," ">> \o DateChars), Line(Hex(32)) >>

CellInputs ==
    { (IF complete THEN FixedRows ELSE <<>>) @@ TailRows @@ (9 :> res) @@ (12 :> citt) @@
      (IF sex = <<>> THEN <<>> ELSE (10 :> sex)) :
        complete \in BOOLEAN, res \in ResidenceCells, citt \in CittCells,
        sex \in SexCells \cup {<<>>} }

ExtraBlocks == { st \o ln : st \in {<<>>, StatusWords(1), StatusWords(3)},
                            ln \in {<<>>, HeaderLines, HeaderLines \o SealLines} }

Init ==
    /\ \E hasTbl \in BOOLEAN, ci \in CellInputs, ex \in ExtraBlocks :
          /\ cellIn = ci
          /\ blocks = MakeDoc(hasTbl, ci, ex)
    /\ gender = <<>> /\ stato = "" /\ seal = ""
    /\ text = <<>> /\ exo = <<>> /\ exo2 = <<>>
    /\ fields = <<>> /\ data = <<>>
    /\ pc = "init"

(* MAIN FLOW, single file: data = extract_table_fields(blocks, bmap);    *)
(* data["Comune"], data["Sezione"] = extract_comune_sezione(blocks)       *)
MainFlow ==
    /\ pc = "init"
    /\ LET f == extract_table_fields(blocks)
           cs == extract_comune_sezione(blocks)
       IN /\ fields' = f
          /\ data' = ("Comune" :> cs[1]) @@ ("Sezione" :> cs[2]) @@ f
    /\ pc' = "done"
    /\ UNCHANGED <<blocks, gender, stato, seal, text, exo, exo2, cellIn>>

Next == MainFlow

Spec == Init /\ [][Next]_vars

(* ---------------- resolver claims ------------------------------------- *)
StatusFragments == <<<<"b","e","q","a","r">>, <<"m","a","r","t","u">>,
                     <<"s","h","k","u","r","o","r">>, <<"v","e","d","o","v">>>>

FragFound(k) == \E i \in 1..Len(blocks) :
                    blocks[i].type = "WORD" /\ Contains(lower(strip(blocks[i].text)), StatusFragments[k + 1])

FirstFragPos(k) == CHOOSE i \in 1..Len(blocks) :
                       /\ blocks[i].type = "WORD"
                       /\ Contains(lower(strip(blocks[i].text)), StatusFragments[k + 1])
                       /\ \A j \in 1..(i - 1) :
                            ~(blocks[j].type = "WORD" /\ Contains(lower(strip(blocks[j].text)), StatusFragments[k + 1]))

LabelY(k) == Centre(blocks[FirstFragPos(k)])

AllFound == \A k \in 0..3 : FragFound(k)

MarkWord(b) == b.type = "WORD" /\ lower(strip(b.text)) \in {<<"x">>, <<"x", ".">>, <<"x", ",">>}

HasMark == \E i \in 1..Len(blocks) : MarkWord(blocks[i])

MarkY == Centre(blocks[CHOOSE i \in 1..Len(blocks) : MarkWord(blocks[i]) /\
                                     \A j \in 1..(i - 1) : ~MarkWord(blocks[j])])

Dist(k) == AbsDiff(LabelY(k), MarkY)

MinDist(k) == \A j \in 0..3 : Dist(k) <= Dist(j)

Form(k) == LET g == lower(gender) IN
           IF g /= <<>> /\ g[1] = "f" THEN female[k + 1]
           ELSE IF g /= <<>> /\ g[1] = "m" THEN male[k + 1]
           ELSE male[k + 1] \o " / " \o female[k + 1]

(* C3: with all four status fragments found and a mark word present, the *)
(* resolver returns the gendered label of a fragment whose centre is at  *)
(* minimum distance from the mark's centre.                              *)
C3_NearestLabel ==
    (pc = "done" /\ AllFound /\ HasMark) => \E k \in 0..3 : MinDist(k) /\ stato = Form(k)

C3_Witness == /\ pc = "done" /\ AllFound /\ HasMark /\ stato = "Divorziata"
              /\ \A j \in {0, 1, 3} : Dist(2) < Dist(j)
              /\ \E j \in 0..3 : LabelY(j) < MarkY
              /\ \E j \in 0..3 : LabelY(j) > MarkY

(* C4: fewer than four fragments found, or no mark word, gives the       *)
(* unresolved sentinel.                                                  *)
C4_Sentinel ==
    (pc = "done" /\ (~AllFound \/ ~HasMark)) => stato = Sentinel

C4_Witness == pc = "done" /\ FragFound(0) /\ FragFound(1) /\ FragFound(2) /\ ~FragFound(3)
              /\ HasMark /\ stato = Sentinel

Tied(k) == MinDist(k)

(* C10 (as stated): among labels tied at the minimal distance the lowest *)
(* status index is returned.                                             *)
C10_LowestIndex ==
    (pc = "done" /\ AllFound /\ HasMark) =>
        stato = Form(CHOOSE k \in 0..3 : Tied(k) /\ \A j \in 0..3 : Tied(j) => k <= j)

(* C10 (amended): among tied labels the one with the smallest vertical   *)
(* centre wins, and among equal centres the one whose first matching    *)
(* word comes first in block order.                                      *)
TieWinner(k) == /\ Tied(k)
                /\ \A j \in 0..3 : Tied(j) /\ j /= k =>
                      \/ LabelY(k) < LabelY(j)
                      \/ LabelY(k) = LabelY(j) /\ FirstFragPos(k) < FirstFragPos(j)
C10_TopmostTied ==
    (pc = "done" /\ AllFound /\ HasMark) =>
        \E k \in 0..3 : TieWinner(k) /\ stato = Form(k)

C10_Witness == pc = "done" /\ AllFound /\ HasMark /\
               \E j, k \in 0..3 : j /= k /\ Tied(j) /\ Tied(k) /\ LabelY(j) /= LabelY(k)
               /\ stato = Form(CHOOSE i \in 0..3 : Tied(i) /\ \A l \in 0..3 : Tied(l) => l <= i)

(* ---------------- seal claims ----------------------------------------- *)
SealMarkers == {i \in 1..Len(LinesOf(blocks)) : Contains(lower(LinesOf(blocks)[i]), SealPhrase)}

SecondMarker == CHOOSE i \in SealMarkers : Cardinality({j \in SealMarkers : j < i}) = 1

AfterSecond == SubSeq(LinesOf(blocks), SecondMarker + 1, Len(LinesOf(blocks)))

FirstWith(ls, P(_)) == ls[CHOOSE i \in 1..Len(ls) : P(ls[i]) /\ \A j \in 1..(i - 1) : ~P(ls[j])]

IsDateLine(l) == HasDate(strip(l))
IsHashLine(l) == IsHash(strip(l))

(* C5 (as stated): with two markers, a date line and a hash line after   *)
(* the second marker, the seal is the four-line block; with fewer than  *)
(* two markers, or no date or no hash line after the second marker, the *)
(* seal is empty.                                                        *)
C5_SealBlock ==
    pc = "done" =>
      IF Cardinality(SealMarkers) < 2 THEN seal = ""
      ELSE IF (\E i \in 1..Len(AfterSecond) : IsDateLine(AfterSecond[i])) /\
              (\E i \in 1..Len(AfterSecond) : IsHashLine(AfterSecond[i]))
      THEN seal = SealHeader \o "In data "
                  \o ToStr(strip(StripDateLabel(strip(FirstWith(AfterSecond, IsDateLine)))))
                  \o "\n" \o ToStr(strip(FirstWith(AfterSecond, IsHashLine)))
      ELSE seal = ""

(* ---------------- exonym claims --------------------------------------- *)
(* C6: map_exonyms is idempotent, and it returns the empty string        *)
(* unchanged.                                                            *)
C6_Idempotent ==
    /\ pc = "done" => exo2 = exo
    /\ (pc \in {"once", "done"} /\ text = <<>>) => exo = <<>>

C6_Witness == pc = "done" /\ exo /= text /\ Contains(text, <<"T","i","r","a","n","ë">>)

(* ---------------- record claims --------------------------------------- *)
RecordKeys == {"Nome", "Cognome", "Numero personale", "Nome del padre", "Nome della madre",
               "Data di nascita", "Luogo di nascita", "Residenza", "Sesso", "Stato Civile",
               "Cittadinanza", "Cognome prima del matrimonio", "Data del rilascio",
               "ElectronicSeal", "Comune", "Sezione"}

HasTable == \E i \in 1..Len(blocks) : blocks[i].type = "TABLE"

(* C1 (as stated): after extract_table_fields and extract_comune_sezione *)
(* every record key is present and maps to a string.                     *)
C1_AllKeys ==
    pc = "done" => /\ RecordKeys \subseteq DOMAIN data
                   /\ \A k \in RecordKeys : data[k] \in STRING

(* C2: a block list without a TABLE block gives an empty mapping.        *)
C2_NoTableEmpty == (pc = "done" /\ ~HasTable) => DOMAIN fields = {}

C2_Witness == pc = "done" /\ ~HasTable /\ 12 \in DOMAIN cellIn /\ Len(blocks) > 10

InText(r) == IF r \in DOMAIN cellIn THEN strip(JoinSpace(cellIn[r])) ELSE <<>>

(* C7: Cittadinanza is "Albanese" exactly when the trimmed upper-cased   *)
(* cell is ALB, ALBANIA, SHQIPTARE or SHQIPTAR, else the cell unchanged. *)
C7_Citizenship ==
    (pc = "done" /\ HasTable) =>
        fields["Cittadinanza"] =
            IF upper(strip(InText(12))) \in {<<"A","L","B">>, <<"A","L","B","A","N","I","A">>,
                                             <<"S","H","Q","I","P","T","A","R","E">>,
                                             <<"S","H","Q","I","P","T","A","R">>}
            THEN "Albanese" ELSE ToStr(InText(12))

C7_Witness == pc = "done" /\ HasTable /\ InText(12) = <<"s","h","q","i","p","t","a","r","e">>
              /\ fields["Cittadinanza"] = "Albanese"

(* C8 (as stated): Sesso is Maschio for "M", Femminile for "F", and the  *)
(* original cell text otherwise.                                         *)
C8_SexVerbatim ==
    (pc = "done" /\ HasTable) =>
        fields["Sesso"] = IF InText(10) = <<"M">> THEN "Maschio"
                          ELSE IF InText(10) = <<"F">> THEN "Femminile"
                          ELSE ToStr(InText(10))

(* C8 (amended): the trimmed, upper-cased cell is compared, so "m"/"f"   *)
(* map as well, and any other value is passed through upper-cased.      *)
C8_SexUpper ==
    (pc = "done" /\ HasTable) =>
        LET u == upper(strip(InText(10))) IN
        fields["Sesso"] = IF u = <<"M">> THEN "Maschio"
                          ELSE IF u = <<"F">> THEN "Femminile"
                          ELSE ToStr(u)

C8_Witness == pc = "done" /\ HasTable /\ InText(10) = <<"m">> /\ fields["Sesso"] = "Maschio"

NearestBeqar == AllFound /\ HasMark /\ \A j \in 1..3 : Dist(0) < Dist(j)

C9_Case == /\ pc = "done" /\ HasTable
           /\ {2, 3, 4, 5, 6, 7, 8, 9, 10, 11, 12, 13, 14} \subseteq DOMAIN cellIn
           /\ InText(10) = <<"F">>
           /\ NearestBeqar

(* the residence abbreviations as literal substring replacements, in     *)
(* order: Nd. -> Ed., H. -> Int., Ap. -> App., and the unit phrase       *)
LiteralResidenceRules ==
    << << Lit(<<"N","d",".">>), <<"E","d",".">> >> >> \o SubSeq(ResidenceRules, 2, Len(ResidenceRules))

RECURSIVE LiteralClean(_, _)
LiteralClean(s, k) == IF k > Len(LiteralResidenceRules) THEN s
                      ELSE LiteralClean(PlainSub(s, 1, LiteralResidenceRules[k][1],
                                                 LiteralResidenceRules[k][2]), k + 1)

(* C9: end to end, Stato Civile Nubile, Sesso Femminile, and every other *)
(* grid field its cell text after the literal residence-abbreviation     *)
(* replacements and exonym normalization (Cittadinanza with its          *)
(* Albanian-variant normalization).                                      *)
C9_EndToEnd ==
    C9_Case =>
      /\ fields["Stato Civile"] = "Nubile"
      /\ fields["Sesso"] = "Femminile"
      /\ \A r \in {2, 3, 4, 5, 6, 7, 13, 14} :
            fields[CASE r = 2 -> "Nome" [] r = 3 -> "Cognome" [] r = 4 -> "Numero personale"
                     [] r = 5 -> "Nome del padre" [] r = 6 -> "Nome della madre"
                     [] r = 7 -> "Data di nascita" [] r = 13 -> "Cognome prima del matrimonio"
                     [] r = 14 -> "Data del rilascio"] = ToStr(InText(r))
      /\ fields["Luogo di nascita"] = ToStr(map_exonyms(InText(8)))
      /\ fields["Residenza"] = ToStr(map_exonyms(LiteralClean(InText(9), 1)))
      /\ fields["Cittadinanza"] = IF upper(strip(InText(12))) \in AlbanianVariants
                                  THEN "Albanese" ELSE ToStr(InText(12))

ResidenceLiterals == {<<"N","d",".">>, <<"H",".">>, <<"A","p",".">>, <<"N","j","ë","s","i","a">>,
                      <<"N","J","Ë","S","I","A">>, <<"N","J","E","S","I","A">>, <<"N","j","e","s","i","a">>,
                      <<"A","d","m","i","n","i","s","t","r","a","t","i","v","e">>,
                      <<"A","D","M","I","N","I","S","T","R","A","T","I","V","E">>}

(* C11: a residence cell containing none of the literal abbreviations is *)
(* left unchanged by the cleanup, so Residenza is just its exonym form.  *)
C11_LiteralOnly ==
    (pc = "done" /\ HasTable /\ \A lit \in ResidenceLiterals : ~Contains(InText(9), lit)) =>
        fields["Residenza"] = ToStr(map_exonyms(InText(9)))

(* C12: the date and hash lines of the seal come only from lines strictly *)
(* after the second marker line.                                         *)
C12_AfterMarkerOnly ==
    (pc = "done" /\ seal /= "") =>
        \E i, j \in 1..Len(AfterSecond) :
            /\ IsDateLine(AfterSecond[i]) /\ IsHashLine(AfterSecond[j])
            /\ seal = SealHeader \o "In data " \o ToStr(strip(StripDateLabel(strip(AfterSecond[i]))))
                      \o "\n" \o ToStr(strip(AfterSecond[j]))
====
